---------------------------- MODULE Spec2Model ----------------------------
(***************************************************************************)
(* Model of the ed448 signature container (src/ed448/src/lib.rs):          *)
(* ComponentBytes, Signature, the byte conversions and the Display form.   *)
(*                                                                         *)
(* Bytes are integers in 0..255, byte arrays and slices are sequences      *)
(* (1-based: Rust index i is TLA+ index i+1).  Every operation returns an  *)
(* outcome record: [st |-> "ok", val |-> v], [st |-> "err"] for a Rust     *)
(* Err, [st |-> "panic"] for a panic; a register nothing has written yet   *)
(* holds [st |-> "none"].                                                  *)
(***************************************************************************)
EXTENDS Integers, Sequences, FiniteSets, TLC

VARIABLES
    bytes,   \* the caller's input byte slice (&[u8]), any length
    sig,     \* outcome of Signature::from_bytes(&bytes)
    conv,    \* outcome of Signature::from(bytes) / from(&bytes), with the entry point
    parsed,  \* outcome of Signature::from_slice(bytes)
    tried,   \* outcome of Signature::try_from(bytes)
    flat,    \* outcome of sig.to_bytes()
    cflat,   \* outcome of a conversion into SignatureBytes, with the entry point
    back,    \* outcome of Signature::from_bytes(&flat)
    comp,    \* a ComponentBytes obtained by default(), r_bytes() or s_bytes()
             \* (after default(): with the one held before, as prev)
    text,    \* outcome of format!("{}", sig)
    ins,     \* equality harness: three 114-byte arrays
    sigs,    \* equality harness: the signatures parsed from ins
    cmps     \* equality harness: results of sigs[i] == sigs[j], in call order

vars == <<bytes, sig, conv, parsed, tried, flat, cflat, back, comp, text, ins, sigs, cmps>>

-----------------------------------------------------------------------------
(* Outcomes *)

Ok(v) == [st |-> "ok", val |-> v]
Err == [st |-> "err"]
Panicked == [st |-> "panic"]
Unset == [st |-> "none"]

-----------------------------------------------------------------------------
(* Constants of the program *)

COMPONENT_SIZE == 57

BYTE_SIZE == COMPONENT_SIZE * 2

Byte == 0..255

-----------------------------------------------------------------------------
(* Bounds of the model *)

\* slice lengths BYTE_SIZE - LenSlack .. BYTE_SIZE + LenSlack are tried
LenSlack == 2

\* a slice much longer than a signature
LongLen == 1000

\* ramps i |-> (i * m) % 256 for m in 1..MaxStride
MaxStride == 3

\* a patched byte differs from the original by 1..MaxDelta (mod 256)
MaxDelta == 1

-----------------------------------------------------------------------------
(* Inputs *)

\* 0x00, 0x0A (leading zero digit), 0xAA, 0xBB, 0xF0, 0xFF
FillBytes == {0, 10, 170, 187, 240, 255}

\* n bytes: x in the first COMPONENT_SIZE places, y after them
Split(n, x, y) == [i \in 1..n |-> IF i <= COMPONENT_SIZE THEN x ELSE y]

\* n bytes, all different when n <= 256 and m is odd
Ramp(n, m) == [i \in 1..n |-> ((i - 1) * m) % 256]

Contents(n) ==
    {Split(n, x, y) : x \in {0, 170, 255}, y \in FillBytes}
        \cup {Ramp(n, m) : m \in 1..MaxStride}

SliceLens ==
    {0, 1, COMPONENT_SIZE, 64, 2 * BYTE_SIZE, LongLen}
        \cup ((BYTE_SIZE - LenSlack)..(BYTE_SIZE + LenSlack))

Slices == UNION {Contents(n) : n \in SliceLens}

\* b with the byte at place p changed by d
Patch(b, p, d) == [b EXCEPT ![p] = (b[p] + d) % 256]

EqBases == {Split(BYTE_SIZE, 170, 187), Split(BYTE_SIZE, 0, 0), Ramp(BYTE_SIZE, 1)}

-----------------------------------------------------------------------------
(* core::slice *)

\* <[T]>::split_at(mid): panics when mid > len
split_at(s, mid) ==
    IF mid <= Len(s)
    THEN Ok(<<SubSeq(s, 1, mid), SubSeq(s, mid + 1, Len(s))>>)
    ELSE Panicked

\* <[T]>::copy_from_slice(src): panics when the lengths differ
copy_from_slice(dst, src) ==
    IF Len(dst) = Len(src) THEN Ok([i \in 1..Len(dst) |-> src[i]]) ELSE Panicked

\* <[u8; N]>::try_from(&[u8]): Ok iff the slice is N long
array_try_from(s, n) == IF Len(s) = n THEN Ok(s) ELSE Err

-----------------------------------------------------------------------------
(* ComponentBytes *)

\* faulty variant: the buffer is filled with 0xFF instead of 0
ComponentBytes_default_ones == [i \in 1..COMPONENT_SIZE |-> 255]

ComponentBytes_default == [i \in 1..COMPONENT_SIZE |-> 0]

\* derive(PartialEq) on ComponentBytes([u8; COMPONENT_SIZE])
ComponentBytes_eq(c, d) ==
    /\ Len(c) = Len(d)
    /\ \A i \in 1..Len(c) : c[i] = d[i]

-----------------------------------------------------------------------------
(* Signature *)

\* faulty variant: components.0 is copied into both R and s
from_bytes_dupR(b) ==
    LET components == split_at(b, COMPONENT_SIZE)
    IN  IF components.st # "ok" THEN Panicked
        ELSE LET R1 == copy_from_slice(ComponentBytes_default, components.val[1])
                 s1 == copy_from_slice(ComponentBytes_default, components.val[1])
             IN  IF R1.st = "ok" /\ s1.st = "ok"
                 THEN Ok([R |-> R1.val, s |-> s1.val])
                 ELSE Panicked

\* faulty variant: components.1 goes to R and components.0 to s
from_bytes_swapped(b) ==
    LET components == split_at(b, COMPONENT_SIZE)
    IN  IF components.st # "ok" THEN Panicked
        ELSE LET R1 == copy_from_slice(ComponentBytes_default, components.val[2])
                 s1 == copy_from_slice(ComponentBytes_default, components.val[1])
             IN  IF R1.st = "ok" /\ s1.st = "ok"
                 THEN Ok([R |-> R1.val, s |-> s1.val])
                 ELSE Panicked

from_bytes(b) ==
    LET R0 == ComponentBytes_default
        s0 == ComponentBytes_default
        components == split_at(b, COMPONENT_SIZE)
    IN  IF components.st # "ok" THEN Panicked
        ELSE LET R1 == copy_from_slice(R0, components.val[1])
                 s1 == copy_from_slice(s0, components.val[2])
             IN  IF R1.st = "ok" /\ s1.st = "ok"
                 THEN Ok([R |-> R1.val, s |-> s1.val])
                 ELSE Panicked

r_bytes(x) == x.R

s_bytes(x) == x.s

\* faulty variant: the copy of s is missing, the zeros of ret stay
to_bytes_no_s(x) ==
    LET ret == [i \in 1..BYTE_SIZE |-> 0]
        halves == split_at(ret, COMPONENT_SIZE)
    IN  IF halves.st # "ok" THEN Panicked
        ELSE LET R1 == copy_from_slice(halves.val[1], x.R)
             IN  IF R1.st = "ok" THEN Ok(R1.val \o halves.val[2]) ELSE Panicked

\* faulty variant: s is written to the first half and R to the second
to_bytes_swapped(x) ==
    LET ret == [i \in 1..BYTE_SIZE |-> 0]
        halves == split_at(ret, COMPONENT_SIZE)
    IN  IF halves.st # "ok" THEN Panicked
        ELSE LET R1 == copy_from_slice(halves.val[1], x.s)
                 s1 == copy_from_slice(halves.val[2], x.R)
             IN  IF R1.st = "ok" /\ s1.st = "ok"
                 THEN Ok(R1.val \o s1.val)
                 ELSE Panicked

to_bytes(x) ==
    LET ret == [i \in 1..BYTE_SIZE |-> 0]
        halves == split_at(ret, COMPONENT_SIZE)
    IN  IF halves.st # "ok" THEN Panicked
        ELSE LET R1 == copy_from_slice(halves.val[1], x.R)
                 s1 == copy_from_slice(halves.val[2], x.s)
             IN  IF R1.st = "ok" /\ s1.st = "ok"
                 THEN Ok(R1.val \o s1.val)
                 ELSE Panicked

\* faulty variant: a hand-written eq that forgets the s component
Signature_eq_R_only(x, y) == ComponentBytes_eq(x.R, y.R)

\* derive(PartialEq) on Signature { R, s }
Signature_eq(x, y) ==
    /\ ComponentBytes_eq(x.R, y.R)
    /\ ComponentBytes_eq(x.s, y.s)

\* impl From<SignatureBytes> for Signature
From_SignatureBytes(b) == from_bytes(b)

\* impl From<&SignatureBytes> for Signature
From_SignatureBytes_ref(b) == from_bytes(b)

\* impl From<Signature> for SignatureBytes
From_Signature(x) == to_bytes(x)

\* impl From<&Signature> for SignatureBytes
From_Signature_ref(x) == to_bytes(x)

\* faulty variant: a long slice is cut to its first BYTE_SIZE bytes
from_slice_truncating(s) ==
    IF Len(s) >= BYTE_SIZE
    THEN From_SignatureBytes(SubSeq(s, 1, BYTE_SIZE))
    ELSE Err

\* faulty variant: the length test follows the doc comment (64 bytes)
from_slice_64(s) ==
    LET arr == array_try_from(s, 64)
    IN  IF arr.st = "ok" THEN From_SignatureBytes(arr.val) ELSE Err

from_slice(s) ==
    LET arr == array_try_from(s, BYTE_SIZE)
    IN  IF arr.st = "ok" THEN From_SignatureBytes(arr.val) ELSE Err

\* faulty variant: try_from with its own, lenient length test
try_from_truncating(s) ==
    IF Len(s) >= BYTE_SIZE THEN from_bytes(SubSeq(s, 1, BYTE_SIZE)) ELSE Err

\* impl TryFrom<&[u8]> for Signature
try_from(s) == from_slice(s)

-----------------------------------------------------------------------------
(* Textual rendering.  Strings are sequences of one-character strings. *)

UpperDigits == <<"0", "1", "2", "3", "4", "5", "6", "7",
                 "8", "9", "A", "B", "C", "D", "E", "F">>

LowerDigits == <<"0", "1", "2", "3", "4", "5", "6", "7",
                 "8", "9", "a", "b", "c", "d", "e", "f">>

\* two digits per byte, high nibble first, no separators
hex_encode(b, digits) ==
    [k \in 1..(2 * Len(b)) |->
        LET byte == b[(k + 1) \div 2]
        IN  IF k % 2 = 1 THEN digits[(byte \div 16) + 1]
                         ELSE digits[(byte % 16) + 1]]

\* impl fmt::UpperHex for Signature (mod hex): the flat form in uppercase hex
fmt_UpperHex(x) ==
    LET b == to_bytes(x)
    IN  IF b.st = "ok" THEN Ok(hex_encode(b.val, UpperDigits)) ELSE Panicked

\* impl fmt::LowerHex for Signature (mod hex): the flat form in lowercase hex
fmt_LowerHex(x) ==
    LET b == to_bytes(x)
    IN  IF b.st = "ok" THEN Ok(hex_encode(b.val, LowerDigits)) ELSE Panicked

\* faulty variant: write!(f, "{:x}", self)
fmt_Display_lower(x) == fmt_LowerHex(x)

\* impl fmt::Display for Signature: write!(f, "{:X}", self)
fmt_Display(x) == fmt_UpperHex(x)

-----------------------------------------------------------------------------
(* The conversion program: one input slice, every operation applied to it *)

Via(name, outcome) == [via |-> name, out |-> outcome]

\* the caller holds a SignatureBytes only when the slice is BYTE_SIZE long
IsSignatureBytes(b) == Len(b) = BYTE_SIZE

Init ==
    /\ bytes \in Slices
    /\ sig = Unset
    /\ conv = Via("none", Unset)
    /\ parsed = Unset
    /\ tried = Unset
    /\ flat = Unset
    /\ cflat = Via("none", Unset)
    /\ back = Unset
    /\ comp = Via("none", Unset)
    /\ text = Unset
    /\ ins = <<>>
    /\ sigs = <<>>
    /\ cmps = <<>>

FromBytes ==
    /\ IsSignatureBytes(bytes)
    /\ sig' = from_bytes(bytes)
    /\ UNCHANGED <<bytes, conv, parsed, tried, flat, cflat, back, comp, text, ins, sigs, cmps>>

FromArray ==
    /\ IsSignatureBytes(bytes)
    /\ conv' = Via("from", From_SignatureBytes(bytes))
    /\ UNCHANGED <<bytes, sig, parsed, tried, flat, cflat, back, comp, text, ins, sigs, cmps>>

FromArrayRef ==
    /\ IsSignatureBytes(bytes)
    /\ conv' = Via("from_ref", From_SignatureBytes_ref(bytes))
    /\ UNCHANGED <<bytes, sig, parsed, tried, flat, cflat, back, comp, text, ins, sigs, cmps>>

FromSlice ==
    /\ parsed' = from_slice(bytes)
    /\ UNCHANGED <<bytes, sig, conv, tried, flat, cflat, back, comp, text, ins, sigs, cmps>>

TryFrom ==
    /\ tried' = try_from(bytes)
    /\ UNCHANGED <<bytes, sig, conv, parsed, flat, cflat, back, comp, text, ins, sigs, cmps>>

ToBytes ==
    /\ sig.st = "ok"
    /\ flat' = to_bytes(sig.val)
    /\ UNCHANGED <<bytes, sig, conv, parsed, tried, cflat, back, comp, text, ins, sigs, cmps>>

IntoBytes ==
    /\ sig.st = "ok"
    /\ cflat' = Via("from", From_Signature(sig.val))
    /\ UNCHANGED <<bytes, sig, conv, parsed, tried, flat, back, comp, text, ins, sigs, cmps>>

IntoBytesRef ==
    /\ sig.st = "ok"
    /\ cflat' = Via("from_ref", From_Signature_ref(sig.val))
    /\ UNCHANGED <<bytes, sig, conv, parsed, tried, flat, back, comp, text, ins, sigs, cmps>>

\* Signature::from_bytes(&sig.to_bytes())
Reparse ==
    /\ flat.st = "ok"
    /\ back' = from_bytes(flat.val)
    /\ UNCHANGED <<bytes, sig, conv, parsed, tried, flat, cflat, comp, text, ins, sigs, cmps>>

\* the component obtained before is kept beside the new one
Default ==
    /\ comp' = [via |-> "default", out |-> Ok(ComponentBytes_default),
                prev |-> [via |-> comp.via, out |-> comp.out]]
    /\ UNCHANGED <<bytes, sig, conv, parsed, tried, flat, cflat, back, text, ins, sigs, cmps>>

RBytes ==
    /\ sig.st = "ok"
    /\ comp' = Via("r_bytes", Ok(r_bytes(sig.val)))
    /\ UNCHANGED <<bytes, sig, conv, parsed, tried, flat, cflat, back, text, ins, sigs, cmps>>

SBytes ==
    /\ sig.st = "ok"
    /\ comp' = Via("s_bytes", Ok(s_bytes(sig.val)))
    /\ UNCHANGED <<bytes, sig, conv, parsed, tried, flat, cflat, back, text, ins, sigs, cmps>>

Display ==
    /\ sig.st = "ok"
    /\ text' = fmt_Display(sig.val)
    /\ UNCHANGED <<bytes, sig, conv, parsed, tried, flat, cflat, back, comp, ins, sigs, cmps>>

Next ==
    \/ FromBytes
    \/ FromArray
    \/ FromArrayRef
    \/ FromSlice
    \/ TryFrom
    \/ ToBytes
    \/ IntoBytes
    \/ IntoBytesRef
    \/ Reparse
    \/ Default
    \/ RBytes
    \/ SBytes
    \/ Display

Spec == Init /\ [][Next]_vars

-----------------------------------------------------------------------------
(* The equality program: three arrays are parsed, then compared pairwise *)

InitEq ==
    /\ \E a \in EqBases :
       \E b \in EqBases \cup {Patch(a, p, d) : p \in 1..BYTE_SIZE, d \in 1..MaxDelta} :
       \E c \in EqBases \cup {b} :
           ins = <<a, b, c>>
    /\ sigs = <<>>
    /\ cmps = <<>>
    /\ bytes = <<>>
    /\ sig = Unset
    /\ conv = Via("none", Unset)
    /\ parsed = Unset
    /\ tried = Unset
    /\ flat = Unset
    /\ cflat = Via("none", Unset)
    /\ back = Unset
    /\ comp = Via("none", Unset)
    /\ text = Unset

\* sigs[i] = Signature::from_bytes(&ins[i]), for i = 1, 2, 3 in turn
ParseNext ==
    /\ Len(sigs) < Len(ins)
    /\ sigs' = Append(sigs, from_bytes(ins[Len(sigs) + 1]))
    /\ UNCHANGED <<bytes, sig, conv, parsed, tried, flat, cflat, back, comp, text, ins, cmps>>

\* the pairs (1,1), (1,2), ..., (3,3) in turn
PairNo(k) == <<(k \div 3) + 1, (k % 3) + 1>>

\* sigs[i] == sigs[j]
CompareNext ==
    /\ Len(sigs) = 3
    /\ \A i \in 1..3 : sigs[i].st = "ok"
    /\ Len(cmps) < 9
    /\ LET i == PairNo(Len(cmps))[1]
           j == PairNo(Len(cmps))[2]
       IN  cmps' = Append(cmps, [l |-> i, r |-> j,
                                 eq |-> Signature_eq(sigs[i].val, sigs[j].val)])
    /\ UNCHANGED <<bytes, sig, conv, parsed, tried, flat, cflat, back, comp, text, ins, sigs>>

NextEq ==
    \/ ParseNext
    \/ CompareNext

SpecEq == InitEq /\ [][NextEq]_vars

-----------------------------------------------------------------------------
(* Properties *)

AllBytes(b, v) == \A i \in 1..Len(b) : b[i] = v

UpperHexChars == {UpperDigits[n] : n \in 1..16}

\* the value of an uppercase hex digit
HexVal(c) == CHOOSE n \in 0..15 : UpperDigits[n + 1] = c

C2_ToBytesOfFromBytes ==
    flat.st # "none" =>
        /\ flat.st = "ok"
        /\ Len(flat.val) = Len(bytes)
        /\ \A i \in 1..Len(bytes) : flat.val[i] = bytes[i]

C2_Witness ==
    /\ bytes = Ramp(BYTE_SIZE, 1)
    /\ flat.st = "ok"

\* C3: for every Signature sig, from_bytes(&sig.to_bytes()) == sig: both
\* components come back unchanged.
C3_FromBytesOfToBytes ==
    back.st # "none" =>
        /\ back.st = "ok"
        /\ Signature_eq(back.val, sig.val)
        /\ r_bytes(back.val) = r_bytes(sig.val)
        /\ s_bytes(back.val) = s_bytes(sig.val)

C3_Witness ==
    /\ back.st = "ok"
    /\ sig.st = "ok"
    /\ r_bytes(sig.val) # s_bytes(sig.val)
    /\ ~AllBytes(s_bytes(sig.val), 0)

\* C4: for every 114-byte array b, r_bytes() of from_bytes(&b) is b[0..57]
\* and s_bytes() is b[57..114], in the same order; 57 x 0xAA then 57 x 0xBB
\* gives R = 57 x 0xAA and s = 57 x 0xBB.
C4_ComponentSplit ==
    /\ comp.via = "r_bytes" =>
        /\ comp.out.st = "ok"
        /\ Len(comp.out.val) = 57
        /\ \A i \in 1..57 : comp.out.val[i] = bytes[i]
        /\ (AllBytes(SubSeq(bytes, 1, 57), 170) /\ AllBytes(SubSeq(bytes, 58, 114), 187))
              => AllBytes(comp.out.val, 170)
    /\ comp.via = "s_bytes" =>
        /\ comp.out.st = "ok"
        /\ Len(comp.out.val) = 57
        /\ \A i \in 1..57 : comp.out.val[i] = bytes[57 + i]
        /\ (AllBytes(SubSeq(bytes, 1, 57), 170) /\ AllBytes(SubSeq(bytes, 58, 114), 187))
              => AllBytes(comp.out.val, 187)

C4_Witness ==
    /\ bytes = Split(BYTE_SIZE, 170, 187)
    /\ comp.via = "s_bytes"
    /\ comp.out.st = "ok"

\* C5: for every Signature sig, sig.to_bytes() is exactly 114 bytes: bytes
\* 0..57 are the R component and bytes 57..114 the s component, with no
\* padding, no length prefix and no zero left over from the initial buffer.
C5_ToBytesLayout ==
    flat.st # "none" =>
        /\ flat.st = "ok"
        /\ Len(flat.val) = 114
        /\ \A i \in 1..57 : flat.val[i] = r_bytes(sig.val)[i]
        /\ \A i \in 1..57 : flat.val[57 + i] = s_bytes(sig.val)[i]

C5_Witness ==
    /\ flat.st = "ok"
    /\ AllBytes(r_bytes(sig.val), 0)
    /\ AllBytes(s_bytes(sig.val), 255)

\* C6: the Display output of a Signature is exactly 228 characters, each an
\* uppercase hex digit, and is the two-digit hex form of each byte of
\* to_bytes() in order; all-0x00 gives 228 '0', all-0xFF gives 228 'F'.
C6_DisplayUpperHex ==
    text.st # "none" =>
        /\ text.st = "ok"
        /\ Len(text.val) = 228
        /\ \A k \in 1..228 : text.val[k] \in UpperHexChars
        /\ LET b == to_bytes(sig.val).val
           IN  /\ \A i \in 1..114 :
                      16 * HexVal(text.val[2 * i - 1]) + HexVal(text.val[2 * i]) = b[i]
               /\ AllBytes(b, 0) => \A k \in 1..228 : text.val[k] = "0"
               /\ AllBytes(b, 255) => \A k \in 1..228 : text.val[k] = "F"

C6_Witness ==
    /\ text.st = "ok"
    /\ bytes = Split(BYTE_SIZE, 255, 10)

\* C7: Signature equality is structural over the full 114 bytes:
\* from_bytes(&a) == from_bytes(&b) iff a = b (one differing byte, in R or
\* in s, makes them unequal), and == is reflexive, symmetric and transitive.
C7_EqualityStructural ==
    /\ \A k \in 1..Len(cmps) :
        /\ cmps[k].eq <=> ins[cmps[k].l] = ins[cmps[k].r]
        /\ cmps[k].l = cmps[k].r => cmps[k].eq
    /\ \A k, m \in 1..Len(cmps) :
        (cmps[k].l = cmps[m].r /\ cmps[k].r = cmps[m].l) => cmps[k].eq = cmps[m].eq
    /\ \A k, m, n \in 1..Len(cmps) :
        (/\ cmps[k].r = cmps[m].l
         /\ cmps[n].l = cmps[k].l
         /\ cmps[n].r = cmps[m].r
         /\ cmps[k].eq
         /\ cmps[m].eq) => cmps[n].eq

\* every pair is compared; arrays 1 and 2 differ in their last byte only,
\* arrays 2 and 3 are the same
C7_Witness ==
    /\ Len(cmps) = 9
    /\ ins[2] = Patch(ins[1], BYTE_SIZE, 1)
    /\ ins[3] = ins[2]
    /\ ~cmps[2].eq
    /\ cmps[6].eq

C9_DefaultZero ==
    comp.via = "default" =>
        /\ comp.out.st = "ok"
        /\ Len(comp.out.val) = 57
        /\ AllBytes(comp.out.val, 0)
        /\ comp.prev.via = "default" =>
              ComponentBytes_eq(comp.out.val, comp.prev.out.val)

\* two default components are held, the second after a signature was parsed
C9_Witness ==
    /\ comp.via = "default"
    /\ comp.out.st = "ok"
    /\ comp.prev.via = "default"
    /\ sig.st = "ok"

\* C10: every conversion entry point agrees with the two core operations:
\* from(b), from(&b), from_slice(&b[..]) and try_from(&b[..]) equal
\* from_bytes(&b); SignatureBytes::from(sig) and from(&sig) equal
\* sig.to_bytes(); and try_from fails exactly when from_slice fails.
C10_ConversionsAgree ==
    /\ (sig.st = "ok" /\ conv.via # "none") =>
          (conv.out.st = "ok" /\ Signature_eq(conv.out.val, sig.val))
    /\ (sig.st = "ok" /\ parsed.st # "none") =>
          (parsed.st = "ok" /\ Signature_eq(parsed.val, sig.val))
    /\ (sig.st = "ok" /\ tried.st # "none") =>
          (tried.st = "ok" /\ Signature_eq(tried.val, sig.val))
    /\ (flat.st = "ok" /\ cflat.via # "none") =>
          (cflat.out.st = "ok" /\ cflat.out.val = flat.val)
    /\ (parsed.st # "none" /\ tried.st # "none") =>
          (tried.st = "err" <=> parsed.st = "err")
    /\ (tried.st # "none" /\ Len(bytes) # BYTE_SIZE) => tried.st = "err"

C10_Witness ==
    /\ sig.st = "ok"
    /\ flat.st = "ok"
    /\ conv.via = "from_ref"
    /\ cflat.via = "from_ref"
    /\ parsed.st = "ok"
    /\ tried.st = "ok"
    /\ bytes = Ramp(BYTE_SIZE, MaxStride)

=============================================================================
